---- MODULE Spec2Model ----
(***************************************************************************)
(* Model of server.js: an Express application with a middleware pipeline   *)
(* (cors, express.json, request logging, Clerk requireAuth), four routes   *)
(* (GET /health, POST /create-order, POST /update-seller,                  *)
(* POST /verify-payment), an optional production frontend stage, a 404     *)
(* fallback and a terminal error handler.                                  *)
(*                                                                         *)
(* Each connection carries one request at a time through the pipeline;     *)
(* requests on different connections interleave at every stage boundary.   *)
(* Numbers are held in quarters (n = 4 * value) so that Math.round has     *)
(* fractions to round; strings are sequences of one-character strings so   *)
(* that String.prototype.trim has whitespace to remove.                    *)
(***************************************************************************)
EXTENDS Integers, Sequences, FiniteSets, TLC

VARIABLES conns, production

vars == <<conns, production>>

\* Largest |amount| a client sends, in quarters of a currency unit.
MaxAmountQ == 7

\* The connections served concurrently.
Conns == {"c1", "c2"}

(***************************************************************************)
(* JavaScript values: t is the typeof, k the kind within the type, n the   *)
(* numeric payload (quarters for numbers, 0/1 for booleans), s the         *)
(* characters of a string, o the own properties of an object.              *)
(***************************************************************************)
NoProps == [x \in {} |-> 0]

JsV(t, k, n, s, o) == [t |-> t, k |-> k, n |-> n, s |-> s, o |-> o]

Undefined == JsV("undefined", "", 0, <<>>, NoProps)

Null == JsV("object", "null", 0, <<>>, NoProps)

Num(q) == JsV("number", "fin", q, <<>>, NoProps)

NaN == JsV("number", "nan", 0, <<>>, NoProps)

PosInf == JsV("number", "inf", 0, <<>>, NoProps)

NegInf == JsV("number", "ninf", 0, <<>>, NoProps)

Str(cs) == JsV("string", "", 0, cs, NoProps)

Bool(b) == JsV("boolean", "", IF b THEN 1 ELSE 0, <<>>, NoProps)

Obj(f) == JsV("object", "plain", 0, <<>>, f)

Arr == JsV("object", "array", 0, <<>>, NoProps)

\* ToBoolean: what `!x` and `a && b` test.
Truthy(v) ==
    CASE v.t = "undefined" -> FALSE
      [] v.t = "number" -> (v.k = "fin" /\ v.n # 0) \/ v.k \in {"inf", "ninf"}
      [] v.t = "string" -> Len(v.s) > 0
      [] v.t = "boolean" -> v.n = 1
      [] OTHER -> v.k # "null"

\* Property access obj[key]; an absent property reads as undefined.
Get(v, key) == IF v.t = "object" /\ key \in DOMAIN v.o THEN v.o[key] ELSE Undefined

Whitespace == {" ", "\t"}

RECURSIVE TrimStart(_)
TrimStart(cs) ==
    IF cs # <<>> /\ Head(cs) \in Whitespace THEN TrimStart(Tail(cs)) ELSE cs

RECURSIVE TrimEnd(_)
TrimEnd(cs) ==
    IF cs # <<>> /\ cs[Len(cs)] \in Whitespace
    THEN TrimEnd(SubSeq(cs, 1, Len(cs) - 1))
    ELSE cs

\* String.prototype.trim
Trim(cs) == TrimEnd(TrimStart(cs))

\* isNaN / isFinite on a value whose typeof is 'number'
isNaN(v) == v.k = "nan"

isFinite(v) == v.k = "fin"

MathRound_Floor(v) == v.n \div 4

\* Math.round on a finite number held in quarters: nearest integer, ties up.
MathRound(v) == (v.n + 2) \div 4

validateAmount_AcceptsZero(amount) ==
    IF amount.t # "number" THEN FALSE
    ELSE IF isNaN(amount) \/ ~isFinite(amount) THEN FALSE
    ELSE amount.n >= 0

validateAmount(amount) ==
    IF amount.t # "number" THEN FALSE
    ELSE IF isNaN(amount) \/ ~isFinite(amount) THEN FALSE
    ELSE amount.n > 0

validateUserId_NoTrim(userId) == userId.t = "string" /\ Len(userId.s) > 0

validateUserId(userId) == userId.t = "string" /\ Len(Trim(userId.s)) > 0

requiredFields == {"businessName", "phoneNumber", "address", "description"}

validateMetadata(metadata) ==
    IF ~Truthy(metadata) \/ metadata.t # "object" THEN FALSE
    ELSE \A field \in requiredFields :
            /\ Truthy(Get(metadata, field))
            /\ Get(metadata, field).t = "string"
            /\ Len(Trim(Get(metadata, field).s)) > 0


(***************************************************************************)
(* Inputs: what a client can put in a request, and what the collaborators  *)
(* can answer.                                                             *)
(***************************************************************************)
Methods == {"GET", "POST", "OPTIONS"}

Paths == {"/health", "/create-order", "/update-seller", "/verify-payment", "/nonexistent"}

\* The amounts a handler can find in req.body; NaN is not expressible in a JSON
\* body and is kept because the handler tests for it.
Amounts ==
    {Num(q) : q \in (0 - MaxAmountQ)..MaxAmountQ}
        \cup {NaN, PosInf, NegInf, Undefined, Null, Str(<<"5", "0">>), Bool(TRUE), Obj(NoProps)}

UserIds ==
    {Undefined, Num(4), Str(<<>>), Str(<<"\t", " ">>), Str(<<"u", "1">>),
     Str(<<" ", "u", "1", " ">>)}

ValidFields == [f \in requiredFields |-> Str(<<"x">>)]

BadFieldValues == {Str(<<>>), Str(<<" ", "\t">>), Num(4)}

Without(f, key) == [k \in (DOMAIN f) \ {key} |-> f[k]]

With(f, key, v) == [k \in (DOMAIN f) \cup {key} |-> IF k = key THEN v ELSE f[k]]

Metadatas ==
    {Obj(ValidFields),
     Obj(With(ValidFields, "updatedAt", Str(<<"c">>))),
     Obj([ValidFields EXCEPT !["address"] = Str(<<" ", "a", " ">>)])}
        \cup {Obj([ValidFields EXCEPT ![f] = b]) : f \in requiredFields, b \in BadFieldValues}
        \cup {Obj(Without(ValidFields, f)) : f \in requiredFields}
        \cup {Undefined, Null, Str(<<"x">>), Num(4), Arr, Obj(NoProps)}

VerifyValues == {Undefined, Str(<<>>), Str(<<"i", "d">>)}

VerifyBodies ==
    [{"razorpay_order_id", "razorpay_payment_id", "razorpay_signature"} -> VerifyValues]
        \cup {[k \in {"razorpay_order_id", "razorpay_payment_id", "razorpay_signature"} |-> Num(4)],
              [k \in {"razorpay_order_id", "razorpay_payment_id", "razorpay_signature"} |->
                    IF k = "razorpay_signature" THEN Num(0) ELSE Str(<<"i", "d">>)],
              [k \in {"razorpay_order_id", "razorpay_payment_id", "razorpay_signature"} |->
                    IF k = "razorpay_order_id" THEN Null ELSE Str(<<"i", "d">>)]}

\* Order entities the payment gateway can return from orders.create.
Orders ==
    [id : {"order_1"}, amount : {0, 2, 50000}, currency : {"INR", "USD"},
     status : {"created"}, receipt : {"receipt_now"}]

NoOrder == [id |-> "", amount |-> 0, currency |-> "", status |-> "", receipt |-> ""]

\* Descriptions carried by the errors the payment gateway can reject with.
UpstreamErrors == {"BAD_REQUEST_ERROR: Authentication failed", "ECONNRESET"}

OrderOutcomes ==
    {[ok |-> TRUE, order |-> o, error |-> ""] : o \in Orders}
        \cup {[ok |-> FALSE, order |-> NoOrder, error |-> e] : e \in UpstreamErrors}

\* What the identity provider would answer to getUser and, when that returns a
\* user, to updateUserMetadata.
ClerkOutcomes ==
    {[lookup |-> "user", update |-> u] : u \in {"ok", "error404", "error500"}}
        \cup {[lookup |-> l, update |-> "unasked"] : l \in {"none", "error404", "error500"}}

VerifyOutcomes == {"true", "false", "throw"}

(***************************************************************************)
(* Connection state.                                                       *)
(***************************************************************************)
IdleConn ==
    [pc |-> "idle", method |-> "", path |-> "", bodyOk |-> TRUE, body |-> NoProps,
     authed |-> "pending", events |-> <<>>, calls |-> <<>>, upstream |-> NoProps,
     err |-> NoProps, thrownBy |-> "", sent |-> <<>>]

Init ==
    /\ conns = [c \in Conns |-> IdleConn]
    /\ production \in BOOLEAN

Put(c, r) == /\ conns' = [conns EXCEPT ![c] = r]
             /\ UNCHANGED production

Respond(r, by, status, body) ==
    [r EXCEPT !.pc = "done",
              !.events = Append(@, "respond"),
              !.sent = Append(@, [status |-> status, by |-> by, body |-> body])]

\* next(err): Express skips to the error-handling middleware.
Fail(r, by, err) == [r EXCEPT !.pc = "error", !.err = err, !.thrownBy = by]

\* A client sends a request on a connection that has none in flight.
Arrive(c) ==
    /\ conns[c].pc = "idle"
    /\ \E m \in Methods, p \in Paths, ok \in BOOLEAN :
          Put(c, [IdleConn EXCEPT !.pc = "cors", !.method = m, !.path = p, !.bodyOk = ok])

\* The response has been written; the connection is free for the next request.
Release(c) ==
    /\ conns[c].pc = "done"
    /\ Put(c, IdleConn)

\* app.use(cors()): a preflight is answered 204 by the middleware itself.
Cors(c) ==
    /\ conns[c].pc = "cors"
    /\ IF conns[c].method = "OPTIONS"
       THEN Put(c, Respond(conns[c], "cors", 204, NoProps))
       ELSE Put(c, [conns[c] EXCEPT !.pc = "json"])

\* The error body-parser passes to next() for a body that is not JSON.
ParseFailure ==
    [status |-> 400, message |-> "Unexpected token in JSON", type |-> "entity.parse.failed"]

\* app.use(express.json())
Json(c) ==
    /\ conns[c].pc = "json"
    /\ IF conns[c].bodyOk
       THEN Put(c, [conns[c] EXCEPT !.pc = "log"])
       ELSE Put(c, Fail(conns[c], "json", ParseFailure))

\* The logging middleware.
LogRequest(c) ==
    /\ conns[c].pc = "log"
    /\ Put(c, [conns[c] EXCEPT !.pc = "gate", !.events = Append(@, "log:incoming")])

\* The responses requireAuth() can answer an unauthenticated request with: a
\* redirect to the sign-in page or an unauthorized status.
GateChallenges ==
    {[status |-> 302, body |-> NoProps], [status |-> 401, body |-> NoProps]}

AuthGate_PassThrough(c) ==
    /\ conns[c].pc = "gate"
    /\ \E authenticated \in BOOLEAN :
          Put(c, [conns[c] EXCEPT !.pc = "route",
                                  !.authed = IF authenticated THEN "yes" ELSE "no",
                                  !.events = Append(@, "gate")])

\* app.use(clerkMiddleware)
AuthGate(c) ==
    /\ conns[c].pc = "gate"
    /\ \E authenticated \in BOOLEAN, challenge \in GateChallenges :
          IF authenticated
          THEN Put(c, [conns[c] EXCEPT !.pc = "route", !.authed = "yes",
                                       !.events = Append(@, "gate")])
          ELSE Put(c, Respond([conns[c] EXCEPT !.authed = "no", !.events = Append(@, "gate")],
                              "gate", challenge.status, challenge.body))

errorHandler_Always500(err) ==
    [status |-> 500,
     body |-> [error |-> IF "message" \in DOMAIN err /\ err.message # ""
                          THEN err.message ELSE "Internal server error",
               code |-> IF "code" \in DOMAIN err /\ err.code # ""
                         THEN err.code ELSE "INTERNAL_ERROR"]]

\* errorHandler
errorHandler(err) ==
    [status |-> IF "status" \in DOMAIN err /\ err.status # 0 THEN err.status ELSE 500,
     body |-> [error |-> IF "message" \in DOMAIN err /\ err.message # ""
                          THEN err.message ELSE "Internal server error",
               code |-> IF "code" \in DOMAIN err /\ err.code # ""
                         THEN err.code ELSE "INTERNAL_ERROR"]]

\* app.use(errorHandler)
ErrorHandler(c) ==
    /\ conns[c].pc = "error"
    /\ Put(c, Respond([conns[c] EXCEPT !.events = Append(@, "log:server_error")],
                      "errorHandler", errorHandler(conns[c].err).status,
                      errorHandler(conns[c].err).body))

\* Express matches a route on the request's method and path.
Matches_AnyMethod(r, method, path) == r.path = path

Matches(r, method, path) == r.method = method /\ r.path = path

\* app.get('/health', ...)
Health(c) ==
    /\ conns[c].pc = "route"
    /\ Matches(conns[c], "GET", "/health")
    /\ Put(c, Respond([conns[c] EXCEPT !.events = Append(@, "handler:/health")],
                      "route", 200, [status |-> "ok", timestamp |-> "now"]))

\* asyncHandler: a rejection of the wrapped handler's promise goes to next().
asyncHandler(r, thrown) == Fail(r, "route", thrown)

\* The order options of the create-order handler.
OrderOptions(amount) ==
    [amount |-> MathRound(amount), currency |-> "INR", receipt |-> "receipt_now",
     payment_capture |-> 1]

\* The failure the create-order handler throws from its catch block.
PaymentGatewayError ==
    [status |-> 502, message |-> "Failed to create payment order",
     code |-> "PAYMENT_GATEWAY_ERROR"]

\* app.post('/create-order', ...) up to the await of razorpay.orders.create
CreateOrder(c) ==
    /\ conns[c].pc = "route"
    /\ Matches(conns[c], "POST", "/create-order")
    /\ \E amount \in Amounts :
          LET r == [conns[c] EXCEPT !.body = [amount |-> amount],
                                    !.events = Append(@, "handler:/create-order")]
          IN IF ~validateAmount(amount)
             THEN Put(c, Respond(r, "route", 400,
                                 [error |-> "Invalid amount", code |-> "INVALID_AMOUNT"]))
             ELSE Put(c, [r EXCEPT !.pc = "await_create",
                                   !.events = Append(@, "call:orders.create"),
                                   !.calls = Append(@, [op |-> "orders.create",
                                                        args |-> OrderOptions(amount)])])

\* The create-order handler resumes with the gateway's order or its rejection.
CreateOrderSettled(c) ==
    /\ conns[c].pc = "await_create"
    /\ \E outcome \in OrderOutcomes :
          LET r == [conns[c] EXCEPT !.upstream = outcome]
          IN IF outcome.ok
             THEN Put(c, Respond(r, "route", 200,
                                 [orderId |-> outcome.order.id,
                                  amount |-> outcome.order.amount,
                                  currency |-> outcome.order.currency]))
             ELSE Put(c, asyncHandler([r EXCEPT !.events = Append(@, "log:razorpay_error")],
                                      PaymentGatewayError))

\* The identifiers bound in the module's scope.
ModuleBindings ==
    {"express", "Razorpay", "cors", "path", "requireAuth", "app", "clerkMiddleware",
     "razorpay", "validateAmount", "validateUserId", "validateMetadata", "errorHandler",
     "asyncHandler", "PORT"}

\* Evaluating an identifier with no binding throws a ReferenceError.
ReferenceError(name) == [name |-> "ReferenceError", message |-> name]

\* The catch block of the update-seller handler.
ClerkCatch(error) ==
    IF "status" \in DOMAIN error /\ error.status = 404
    THEN [status |-> 404, message |-> "User not found", code |-> "USER_NOT_FOUND"]
    ELSE [status |-> 502, message |-> "Failed to update seller information",
          code |-> "CLERK_API_ERROR"]

\* app.post('/update-seller', ...): `clerk` has no binding, so the first statement
\* of the try block throws before any operation of the identity provider is called.
UpdateSeller(c) ==
    /\ conns[c].pc = "route"
    /\ Matches(conns[c], "POST", "/update-seller")
    /\ "clerk" \notin ModuleBindings
    /\ \E userId \in UserIds, metadata \in Metadatas, clerk \in ClerkOutcomes :
          LET r == [conns[c] EXCEPT !.body = [userId |-> userId, metadata |-> metadata],
                                    !.events = Append(@, "handler:/update-seller")]
          IN IF ~validateUserId(userId)
             THEN Put(c, Respond(r, "route", 400,
                                 [error |-> "Invalid user ID", code |-> "INVALID_USER_ID"]))
             ELSE IF ~validateMetadata(metadata)
             THEN Put(c, Respond(r, "route", 400,
                                 [error |-> "Invalid seller metadata",
                                  code |-> "INVALID_METADATA"]))
             ELSE Put(c, asyncHandler(
                            [r EXCEPT !.upstream = clerk,
                                      !.events = Append(@, "log:clerk_error")],
                            ClerkCatch(ReferenceError("clerk"))))

VerificationFailed_BadGateway ==
    [status |-> 502, message |-> "Payment verification failed",
     code |-> "VERIFICATION_FAILED"]

\* The failure the verify-payment handler throws from its catch block.
VerificationFailed ==
    [status |-> 400, message |-> "Payment verification failed",
     code |-> "VERIFICATION_FAILED"]

\* app.post('/verify-payment', ...): the verification is a synchronous call.
VerifyPayment(c) ==
    /\ conns[c].pc = "route"
    /\ Matches(conns[c], "POST", "/verify-payment")
    /\ \E body \in VerifyBodies, outcome \in VerifyOutcomes :
          LET r == [conns[c] EXCEPT !.body = body,
                                    !.events = Append(@, "handler:/verify-payment")]
              called == [r EXCEPT !.upstream = [verify |-> outcome],
                                  !.events = Append(@, "call:verifyPaymentSignature"),
                                  !.calls = Append(@,
                                      [op |-> "webhooks.verifyPaymentSignature",
                                       args |-> [order_id |-> body["razorpay_order_id"],
                                                 payment_id |-> body["razorpay_payment_id"],
                                                 signature |-> body["razorpay_signature"]]])]
          IN IF \/ ~Truthy(body["razorpay_order_id"])
                \/ ~Truthy(body["razorpay_payment_id"])
                \/ ~Truthy(body["razorpay_signature"])
             THEN Put(c, Respond(r, "route", 400,
                                 [error |-> "Missing payment verification parameters",
                                  code |-> "INVALID_PAYMENT_VERIFICATION"]))
             ELSE IF outcome = "throw"
             THEN Put(c, asyncHandler(
                            [called EXCEPT !.events = Append(@, "log:verification_error")],
                            VerificationFailed))
             ELSE IF outcome = "false"
             THEN Put(c, Respond(called, "route", 400,
                                 [error |-> "Invalid payment signature",
                                  code |-> "INVALID_SIGNATURE"]))
             ELSE Put(c, Respond(called, "route", 200,
                                 [success |-> TRUE,
                                  message |-> "Payment verified successfully"]))

\* The routes registered with app.get / app.post.
Routes ==
    {<<"GET", "/health">>, <<"POST", "/create-order">>, <<"POST", "/update-seller">>,
     <<"POST", "/verify-payment">>}

Unmatched(r) == \A route \in Routes : ~Matches(r, route[1], route[2])

\* In production: express.static, then app.get('*') sending index.html.
ServeFrontend(c) ==
    /\ conns[c].pc = "route"
    /\ Unmatched(conns[c])
    /\ production /\ conns[c].method = "GET"
    /\ \E asset \in {"file", "index.html"} :
          Put(c, Respond(conns[c], "static", 200, [file |-> asset]))

\* The fallback middleware for unmatched paths.
Fallback(c) ==
    /\ conns[c].pc = "route"
    /\ Unmatched(conns[c])
    /\ ~(production /\ conns[c].method = "GET")
    /\ Put(c, Respond([conns[c] EXCEPT !.events = Append(@, "log:unhandled_route")],
                      "fallback", 404,
                      [error |-> "Route not found", code |-> "ROUTE_NOT_FOUND"]))

Next == \E c \in Conns :
    \/ Arrive(c)
    \/ Release(c)
    \/ Cors(c)
    \/ Json(c)
    \/ LogRequest(c)
    \/ AuthGate(c)
    \/ Health(c)
    \/ CreateOrder(c)
    \/ CreateOrderSettled(c)
    \/ UpdateSeller(c)
    \/ VerifyPayment(c)
    \/ ServeFrontend(c)
    \/ Fallback(c)
    \/ ErrorHandler(c)

Spec == Init /\ [][Next]_vars

(***************************************************************************)
(* Properties.  Each is stated over the requests in flight or answered on  *)
(* any connection; the classes of input are written out from the           *)
(* statement being checked, not taken from the validators.                 *)
(***************************************************************************)
Has(r, e) == \E i \in 1..Len(r.events) : r.events[i] = e

Index(r, e) == CHOOSE i \in 1..Len(r.events) : r.events[i] = e

Count(r, e) == Cardinality({i \in 1..Len(r.events) : r.events[i] = e})

HandlerEvents ==
    {"handler:/health", "handler:/create-order", "handler:/update-seller",
     "handler:/verify-payment"}

HandlerRan(r) == \E i \in 1..Len(r.events) : r.events[i] \in HandlerEvents

Answered(r, status, code) ==
    /\ r.pc = "done"
    /\ Len(r.sent) = 1
    /\ r.sent[1].status = status
    /\ "code" \in DOMAIN r.sent[1].body
    /\ r.sent[1].body.code = code

Blank(cs) == \A i \in 1..Len(cs) : cs[i] \in Whitespace

NonBlankString(v) == v.t = "string" /\ ~Blank(v.s)

AmountIsBad(a) ==
    \/ a.t # "number"
    \/ a.k = "nan"
    \/ a.k \in {"inf", "ninf"}
    \/ (a.k = "fin" /\ a.n <= 0)

UserIdIsBad(u) == u.t # "string" \/ Blank(u.s)

MetadataIsBad(m) ==
    \/ m.t # "object"
    \/ m.k = "null"
    \/ \E f \in requiredFields : f \notin DOMAIN m.o \/ ~NonBlankString(m.o[f])

IdentityCalls(r) ==
    {i \in 1..Len(r.calls) : r.calls[i].op \in {"users.getUser", "users.updateUserMetadata"}}

\* C1: a create-order request that reaches the handler with a non-numeric, NaN,
\* infinite, zero or negative amount is answered 400 INVALID_AMOUNT and the
\* payment gateway's order creation is never invoked for it.
C1_InvalidAmountRejected ==
    \A c \in Conns :
        LET r == conns[c]
        IN (Has(r, "handler:/create-order") /\ AmountIsBad(r.body.amount))
              => Answered(r, 400, "INVALID_AMOUNT") /\ r.calls = <<>>

C1_Witness ==
    \E c \in Conns :
        /\ Has(conns[c], "handler:/create-order")
        /\ conns[c].body.amount = Num(0)
        /\ Answered(conns[c], 400, "INVALID_AMOUNT")

\* C2: update-seller validates userId first, then metadata: a bad userId gives
\* 400 INVALID_USER_ID whatever the metadata; a good userId with bad metadata
\* gives 400 INVALID_METADATA; in both cases no identity operation is invoked.
C2_OrderedValidation ==
    \A c \in Conns :
        LET r == conns[c]
        IN Has(r, "handler:/update-seller") =>
              /\ UserIdIsBad(r.body.userId)
                    => Answered(r, 400, "INVALID_USER_ID") /\ IdentityCalls(r) = {}
              /\ (~UserIdIsBad(r.body.userId) /\ MetadataIsBad(r.body.metadata))
                    => Answered(r, 400, "INVALID_METADATA") /\ IdentityCalls(r) = {}

C2_Witness ==
    \E c, d \in Conns :
        /\ Has(conns[c], "handler:/update-seller")
        /\ UserIdIsBad(conns[c].body.userId)
        /\ MetadataIsBad(conns[c].body.metadata)
        /\ Answered(conns[c], 400, "INVALID_USER_ID")
        /\ Has(conns[d], "handler:/update-seller")
        /\ ~UserIdIsBad(conns[d].body.userId)
        /\ MetadataIsBad(conns[d].body.metadata)
        /\ Answered(conns[d], 400, "INVALID_METADATA")

\* C3: an update-seller request with valid userId and metadata, for which the
\* identity provider returns a user and accepts the update, is answered 200
\* {success: true, message: "Seller metadata updated successfully"} after exactly
\* one update call whose public metadata holds the four fields and a server-set
\* updatedAt.
C3_SellerUpdated ==
    \A c \in Conns :
        LET r == conns[c]
        IN (/\ r.pc = "done"
            /\ Has(r, "handler:/update-seller")
            /\ ~UserIdIsBad(r.body.userId)
            /\ ~MetadataIsBad(r.body.metadata)
            /\ r.upstream.lookup = "user"
            /\ r.upstream.update = "ok")
              => /\ Len(r.sent) = 1
                 /\ r.sent[1].status = 200
                 /\ "success" \in DOMAIN r.sent[1].body
                 /\ r.sent[1].body.success = TRUE
                 /\ r.sent[1].body.message = "Seller metadata updated successfully"
                 /\ Cardinality({i \in 1..Len(r.calls) :
                                    r.calls[i].op = "users.updateUserMetadata"}) = 1
                 /\ \A i \in 1..Len(r.calls) :
                       r.calls[i].op = "users.updateUserMetadata" =>
                          /\ requiredFields \subseteq DOMAIN r.calls[i].args.publicMetadata
                          /\ "updatedAt" \in DOMAIN r.calls[i].args.publicMetadata
                          /\ r.calls[i].args.publicMetadata["updatedAt"] = Str(<<"n", "o", "w">>)

\* C4: a verify-payment request that reaches the handler with one of the three
\* fields missing or falsy is answered 400 INVALID_PAYMENT_VERIFICATION without
\* a verification call; otherwise the verification is called once with the three
\* values, and the answer is 200 {success: true, message} if it returns true,
\* 400 INVALID_SIGNATURE if false, 400 VERIFICATION_FAILED if it throws.
C4_VerifyPayment ==
    \A c \in Conns :
        LET r == conns[c]
            missing == \E k \in DOMAIN r.body : ~Truthy(r.body[k])
        IN (r.pc = "done" /\ Has(r, "handler:/verify-payment")) =>
              /\ missing => Answered(r, 400, "INVALID_PAYMENT_VERIFICATION") /\ r.calls = <<>>
              /\ ~missing =>
                    /\ Len(r.calls) = 1
                    /\ r.calls[1].op = "webhooks.verifyPaymentSignature"
                    /\ r.calls[1].args = [order_id |-> r.body["razorpay_order_id"],
                                          payment_id |-> r.body["razorpay_payment_id"],
                                          signature |-> r.body["razorpay_signature"]]
                    /\ r.upstream.verify = "true" =>
                          /\ Len(r.sent) = 1
                          /\ r.sent[1].status = 200
                          /\ DOMAIN r.sent[1].body = {"success", "message"}
                          /\ r.sent[1].body.success = TRUE
                    /\ r.upstream.verify = "false" => Answered(r, 400, "INVALID_SIGNATURE")
                    /\ r.upstream.verify = "throw" => Answered(r, 400, "VERIFICATION_FAILED")

C4_Witness ==
    \E c, d \in Conns :
        /\ Has(conns[c], "handler:/verify-payment")
        /\ conns[c].upstream = [verify |-> "throw"]
        /\ Answered(conns[c], 400, "VERIFICATION_FAILED")
        /\ Has(conns[d], "handler:/verify-payment")
        /\ conns[d].calls = <<>>
        /\ Answered(conns[d], 400, "INVALID_PAYMENT_VERIFICATION")

\* C5: a create-order request with a valid amount invokes order creation exactly
\* once with the amount rounded to the nearest integer and currency "INR"; on
\* success the answer is 200 with exactly orderId, amount, currency taken from the
\* gateway's order; on failure it is 502 PAYMENT_GATEWAY_ERROR with a fixed message
\* that carries nothing of the upstream error.
C5_CreateOrder ==
    \A c \in Conns :
        LET r == conns[c]
        IN (Has(r, "handler:/create-order") /\ ~AmountIsBad(r.body.amount)) =>
              /\ Len(r.calls) = 1
              /\ r.calls[1].op = "orders.create"
              /\ r.calls[1].args.currency = "INR"
              /\ 4 * r.calls[1].args.amount - r.body.amount.n \in -2..2
              /\ (r.pc = "done" /\ r.upstream.ok) =>
                    /\ Len(r.sent) = 1
                    /\ r.sent[1].status = 200
                    /\ r.sent[1].body = [orderId |-> r.upstream.order.id,
                                         amount |-> r.upstream.order.amount,
                                         currency |-> r.upstream.order.currency]
              /\ (r.pc = "done" /\ ~r.upstream.ok) =>
                    /\ Answered(r, 502, "PAYMENT_GATEWAY_ERROR")
                    /\ DOMAIN r.sent[1].body = {"error", "code"}
                    /\ r.sent[1].body.error = "Failed to create payment order"
                    /\ \A k \in DOMAIN r.sent[1].body : r.sent[1].body[k] \notin UpstreamErrors

C5_Witness ==
    \E c, d \in Conns :
        /\ conns[c].pc = "done" /\ Has(conns[c], "call:orders.create")
        /\ conns[c].body.amount = Num(6)
        /\ conns[c].upstream.ok
        /\ conns[c].sent[1].body.amount = 50000
        /\ conns[d].pc = "done" /\ Has(conns[d], "call:orders.create")
        /\ ~conns[d].upstream.ok
        /\ Answered(conns[d], 502, "PAYMENT_GATEWAY_ERROR")

\* C6: for an update-seller request with valid userId and metadata: a lookup that
\* returns no user gives 404 USER_NOT_FOUND and no update call; a lookup or update
\* failing with status 404 gives 404 USER_NOT_FOUND; any other failure of the
\* identity provider gives 502 CLERK_API_ERROR; the update is only invoked after a
\* lookup of the same request returned a user.
C6_SellerLookupErrors ==
    \A c \in Conns :
        LET r == conns[c]
            updates == {i \in 1..Len(r.calls) : r.calls[i].op = "users.updateUserMetadata"}
            lookups == {i \in 1..Len(r.calls) : r.calls[i].op = "users.getUser"}
        IN (/\ r.pc = "done"
            /\ Has(r, "handler:/update-seller")
            /\ ~UserIdIsBad(r.body.userId)
            /\ ~MetadataIsBad(r.body.metadata))
              => /\ r.upstream.lookup = "none"
                       => Answered(r, 404, "USER_NOT_FOUND") /\ updates = {}
                 /\ (r.upstream.lookup = "error404" \/ r.upstream.update = "error404")
                       => Answered(r, 404, "USER_NOT_FOUND")
                 /\ (r.upstream.lookup = "error500" \/ r.upstream.update = "error500")
                       => Answered(r, 502, "CLERK_API_ERROR")
                 /\ \A i \in updates : r.upstream.lookup = "user" /\ \E j \in lookups : j < i

\* C7: every GET /health request is answered 200 with status "ok", whatever else
\* is in flight, and no collaborator operation is invoked for it.  Stated for the
\* requests express.json lets through, which is every health check without a body.
C7_HealthAlwaysOk ==
    \A c \in Conns :
        LET r == conns[c]
        IN (r.pc = "done" /\ r.method = "GET" /\ r.path = "/health" /\ r.bodyOk) =>
              /\ Len(r.sent) = 1
              /\ r.sent[1].status = 200
              /\ "status" \in DOMAIN r.sent[1].body
              /\ r.sent[1].body.status = "ok"
              /\ r.calls = <<>>

NamedRoute(r) ==
    \/ r.method = "GET" /\ r.path = "/health"
    \/ r.method = "POST" /\ r.path \in {"/create-order", "/update-seller", "/verify-payment"}

RouteNotFound(r) ==
    /\ Answered(r, 404, "ROUTE_NOT_FOUND")
    /\ r.sent[1].body = [error |-> "Route not found", code |-> "ROUTE_NOT_FOUND"]

C9_GateBeforeRoutes ==
    \A c \in Conns :
        LET r == conns[c]
        IN /\ Has(r, "gate") => Has(r, "log:incoming") /\ Index(r, "log:incoming") < Index(r, "gate")
           /\ HandlerRan(r) => Has(r, "gate") /\ r.authed = "yes"
           /\ r.authed = "no" =>
                 /\ r.events = <<"log:incoming", "gate", "respond">>
                 /\ Len(r.sent) = 1
                 /\ r.sent[1].by = "gate"
                 /\ ~HandlerRan(r)
                 /\ r.calls = <<>>

C9_Witness ==
    \E c \in Conns :
        /\ conns[c].authed = "no"
        /\ conns[c].method = "POST" /\ conns[c].path = "/create-order"
        /\ conns[c].pc = "done"

\* C10: every failure a route handler throws (and every failure an earlier stage
\* passes to next) reaches the error handler, which logs it and then sends exactly
\* one response: the failure's status (500 if absent) and {error: its message,
\* code: its code or INTERNAL_ERROR}; the error handler is the last stage, so its
\* response is the last event of the request.
C10_ErrorHandlerLast ==
    \A c \in Conns :
        LET r == conns[c]
        IN /\ r.thrownBy # "" =>
                 /\ r.pc \in {"error", "done"}
                 /\ r.pc = "error" => r.sent = <<>>
                 /\ r.pc = "done" =>
                       /\ Len(r.sent) = 1
                       /\ r.sent[1].by = "errorHandler"
                       /\ r.sent[1].status =
                             (IF "status" \in DOMAIN r.err THEN r.err.status ELSE 500)
                       /\ r.sent[1].body =
                             [error |-> r.err.message,
                              code |-> IF "code" \in DOMAIN r.err THEN r.err.code
                                       ELSE "INTERNAL_ERROR"]
                       /\ Count(r, "log:server_error") = 1
                       /\ Count(r, "respond") = 1
                       /\ Index(r, "log:server_error") < Index(r, "respond")
           /\ Has(r, "log:server_error") =>
                 /\ r.pc = "done"
                 /\ r.events[Len(r.events)] = "respond"
                 /\ r.events[Len(r.events) - 1] = "log:server_error"

C10_Witness ==
    \E c, d \in Conns :
        /\ conns[c].thrownBy = "route" /\ conns[c].pc = "done"
        /\ conns[c].err.code = "PAYMENT_GATEWAY_ERROR"
        /\ conns[c].sent[1].status = 502
        /\ conns[d].thrownBy = "route" /\ conns[d].pc = "done"
        /\ conns[d].err.code = "VERIFICATION_FAILED"
        /\ conns[d].sent[1].status = 400

====
